---- MODULE Spec2Model ----
(***************************************************************************)
(* Synchronisation core of collab-stream-sync.                             *)
(*                                                                         *)
(*  - SpecDb: the host lock and the canonical room state kept in Postgres  *)
(*    (claim_host, transfer_host, the room_state UPDATE with its           *)
(*    updated_at trigger), statement by statement under READ COMMITTED.    *)
(*  - SpecSync: SpecDb plus a Room page that hydrates from room_state,     *)
(*    subscribes to its changes and applies the notifications it is sent.  *)
(*  - SpecPlayer: the VideoPlayer component of one browser: the drift      *)
(*    monitor, the video state sync effect, the timeupdate listener and    *)
(*    the Sync button, over the passage of time.                           *)
(*                                                                         *)
(* Times and positions are integers in milliseconds; playback rates are    *)
(* integers in percent (100 is 1.0x).                                      *)
(***************************************************************************)
EXTENDS Integers, FiniteSets, Sequences, TLC

\* ------------------------------------------------------------ bounds
NumUsers == 2            \* authenticated users (auth.uid() values 1..NumUsers)
MaxClock == 3            \* transactions started in one behaviour
Capacity == 1            \* rooms.capacity of the modelled room

NumViewers == 1          \* users that have the Room page open (users 1..NumViewers)
Epoch == 1000            \* the clock reading when the modelled player is first observed
StepMs == 1000           \* granularity of the passage of time
MaxNow == 5000           \* the clock reading at which observation of the player stops
UiStepMs == 250          \* granularity of the passage of time while the host uses the controls
MaxUiNow == 2000         \* the clock reading at which observation of the controls stops
ProbeStepMs == 500       \* granularity of the passage of time while a probe is in flight
MaxProbeNow == 6200      \* the clock reading at which observation of the probes stops
MaxProbes == 2           \* how many probes and pings one behaviour starts
WsStepMs == 1000         \* ms of socket time per step
MaxWsNow == 9000         \* socket time stops here
MaxAttempts == 7         \* connect_error events counted in one behaviour
MaxTimers == 4           \* scheduleReconnect timeouts pending at once

Users == 1..NumUsers
Viewers == 1..NumViewers
NULL == 0                \* SQL NULL / JavaScript undefined for an id

\* ------------------------------------------------------------ state
VARIABLES
  host_lock,      \* host_lock.host_user_id of the room's row, NULL when there is no row
  room_state,     \* the room's room_state row
  room_members,   \* user ids with a room_members row
  txn,            \* per user: the database call in flight
  rowLock,        \* per table: the transaction holding the row's write lock
  clock           \* the database clock, read by now() at transaction start

dbVars == <<host_lock, room_state, room_members, txn, rowLock, clock>>

VARIABLES
  view,           \* per viewer: how far the Room page's initializeRoom has got
  videoState,     \* per viewer: the store's videoState
  hostState,      \* per viewer: the store's hostState
  channel,        \* per viewer: room_state notifications in flight to its subscription
  connected       \* per viewer: the store's connectionState.connected

roomVars == <<view, videoState, hostState, channel, connected>>

\* The VideoPlayer component mounted in the browser of viewer Local.
VARIABLES
  variant,          \* which VideoPlayer is mounted: "enhanced", "simple" or "none"
  player,           \* the media element: currentTime, playbackRate, paused
  isSeeking,        \* useState isSeeking
  localTime,        \* useState localTime
  lastStateUpdate,  \* useState lastStateUpdate
  lastSyncTime,     \* useState lastSyncTime
  connectionState,  \* the store's connectionState: rtt, offset, drift, lastSync
  now,              \* Date.now() in the browser
  tickDue,          \* when the setInterval(calculateDrift) next fires
  revertTimers,     \* pending setTimeout callbacks of the rate adjustment
  resumeTimers,     \* pending setTimeout callbacks of the brief pause after a seek
  effectPending,    \* a dependency of the video state sync effect changed since it ran
  timeupdate,       \* the media element's timeupdate event: "none", "raised" by a change
                    \* of currentTime at this instant, or "ready" for its listener
  sent              \* the supabaseApi.updateRoomState calls the component has issued

playerVars == <<variant, player, isSeeking, localTime, lastStateUpdate, lastSyncTime,
                connectionState, now, tickDue, revertTimers, resumeTimers,
                effectPending, timeupdate, sent>>

\* Clock probes of the browser of viewer Local.
VARIABLES
  probe,            \* the syncServerTime call in flight
  ping,             \* the WebSocketManager.ping call in flight
  pingResult,       \* how the last WebSocketManager.ping promise was settled
  probes,           \* how many probes and pings have been started
  wire,             \* ws:ping and ws:pong messages between the socket and its server
  listeners,        \* start times of the registered once('ws:pong') listeners
  socket,           \* WebSocketManager.socket: "null", or the state of the socket
  connectionAttempts,
  isManualDisconnect,
  reconnectTimers   \* due times of the pending scheduleReconnect timeouts

wsVars == <<socket, connectionAttempts, isManualDisconnect, reconnectTimers>>

probeVars == <<probe, ping, pingResult, probes, wire, listeners, wsVars>>

\* The host controls of the VideoPlayer of viewer Local.
VARIABLES
  isUpdatingState,  \* useState isUpdatingState of the enhanced player
  awaiting,         \* the handler suspended at "await supabaseApi.updateRoomState"
  unlockTimers,     \* pending setTimeout callbacks that clear isUpdatingState / isSeeking
  inputs,           \* how many host inputs the handlers have accepted
  uiWrites,         \* the updateRoomState calls made for host input, in order
  dragging          \* the host holds the thumb of the progress slider

uiVars == <<isUpdatingState, awaiting, unlockTimers, inputs, uiWrites, dragging>>

vars == <<dbVars, roomVars, playerVars, probeVars, uiVars>>

\* A call that is not running.
Idle == [fn |-> "idle", pc |-> "idle", start |-> 0, current_host |-> NULL,
         new_host_id |-> NULL, patch |-> <<>>, wLock |-> NULL, wState |-> <<>>,
         wMember |-> "none", result |-> "none"]

\* room_state columns as created (paused true, position 0, playback_rate 1.0).
InitialRoomState == [host_user_id |-> NULL, paused |-> TRUE, position |-> 0,
                     playback_rate |-> 100, updated_at |-> 0]

\* The store's initial videoState and hostState.
InitialVideoState == [paused |-> TRUE, position |-> 0, playbackRate |-> 100,
                      hostId |-> NULL, lastUpdated |-> 0]

InitialHostState == [isHost |-> FALSE, canBecomeHost |-> TRUE]

\* SQL's three-valued a != b: unknown when either side is NULL.
SqlNotEqual(a, b) == IF a = NULL \/ b = NULL THEN "null"
                     ELSE IF a # b THEN "true" ELSE "false"

\* The BEFORE UPDATE trigger: NEW.updated_at = now(), the transaction's start time.
update_updated_at_column(new, startTime) == [new EXCEPT !.updated_at = startTime]

\* A row with the SET columns of an UPDATE replaced.
ApplyPatch(row, patch) ==
  [f \in DOMAIN row |-> IF f \in DOMAIN patch THEN patch[f] ELSE row[f]]

\* BEGIN: now() is fixed for the whole transaction.
BeginTxn(u, fn, firstPc, newHost, patch) ==
  /\ txn[u].fn = "idle"
  /\ clock < MaxClock
  /\ clock' = clock + 1
  /\ txn' = [txn EXCEPT ![u] = [Idle EXCEPT !.fn = fn, !.pc = firstPc,
                                            !.start = clock + 1,
                                            !.new_host_id = newHost,
                                            !.patch = patch]]

\* supabaseApi.claimHost: rpc('claim_host')
claimHost(u) ==
  /\ BeginTxn(u, "claim_host", "select", NULL, <<>>)
  /\ UNCHANGED <<host_lock, room_state, room_members, rowLock>>
  /\ UNCHANGED <<roomVars, playerVars, probeVars, uiVars>>

\* claim_host without its IF current_host IS NOT NULL THEN RETURN FALSE: the call
\* goes on to the INSERT whatever it read.
claim_host_select_NoCheck(u) ==
  /\ txn[u].fn = "claim_host" /\ txn[u].pc = "select"
  /\ txn' = [txn EXCEPT ![u].current_host = room_state.host_user_id,
                        ![u].pc = "insert"]
  /\ UNCHANGED <<host_lock, room_state, room_members, rowLock, clock>>
  /\ UNCHANGED <<roomVars, playerVars, probeVars, uiVars>>

\* claim_host: SELECT host_user_id INTO current_host; IF current_host IS NOT NULL
\* THEN RETURN FALSE
claim_host_select(u) ==
  /\ txn[u].fn = "claim_host" /\ txn[u].pc = "select"
  /\ txn' = [txn EXCEPT ![u].current_host = room_state.host_user_id,
                        ![u].pc = IF room_state.host_user_id # NULL
                                  THEN "commit" ELSE "insert",
                        ![u].result = IF room_state.host_user_id # NULL
                                      THEN "false" ELSE "none"]
  /\ UNCHANGED <<host_lock, room_state, room_members, rowLock, clock>>
  /\ UNCHANGED <<roomVars, playerVars, probeVars, uiVars>>

\* claim_host: INSERT INTO host_lock ... ON CONFLICT (room_id) DO NOTHING.
\* A committed row is a conflict; an uncommitted insert of another transaction
\* makes the statement wait for that transaction to end.
claim_host_insert(u) ==
  /\ txn[u].fn = "claim_host" /\ txn[u].pc = "insert"
  /\ IF host_lock # NULL
     THEN /\ txn' = [txn EXCEPT ![u].pc = "update"]
          /\ UNCHANGED rowLock
     ELSE /\ rowLock.host_lock = NULL
          /\ rowLock' = [rowLock EXCEPT !.host_lock = u]
          /\ txn' = [txn EXCEPT ![u].pc = "update", ![u].wLock = u]
  /\ UNCHANGED <<host_lock, room_state, room_members, clock>>
  /\ UNCHANGED <<roomVars, playerVars, probeVars, uiVars>>

\* claim_host: UPDATE room_state SET host_user_id = auth.uid(); RETURN TRUE
claim_host_update(u) ==
  /\ txn[u].fn = "claim_host" /\ txn[u].pc = "update"
  /\ rowLock.room_state = NULL
  /\ rowLock' = [rowLock EXCEPT !.room_state = u]
  /\ txn' = [txn EXCEPT ![u].pc = "commit", ![u].result = "true",
                        ![u].wState = [host_user_id |-> u]]
  /\ UNCHANGED <<host_lock, room_state, room_members, clock>>
  /\ UNCHANGED <<roomVars, playerVars, probeVars, uiVars>>

\* supabaseApi.transferHost: rpc('transfer_host')
transferHost(u, newHostId) ==
  /\ BeginTxn(u, "transfer_host", "select", newHostId, <<>>)
  /\ UNCHANGED <<host_lock, room_state, room_members, rowLock>>
  /\ UNCHANGED <<roomVars, playerVars, probeVars, uiVars>>

\* transfer_host: SELECT host_user_id INTO current_host;
\* IF current_host != auth.uid() THEN RETURN FALSE
transfer_host_select(u) ==
  /\ txn[u].fn = "transfer_host" /\ txn[u].pc = "select"
  /\ LET notHost == SqlNotEqual(room_state.host_user_id, u) = "true"
     IN txn' = [txn EXCEPT ![u].current_host = room_state.host_user_id,
                           ![u].pc = IF notHost THEN "commit" ELSE "update_lock",
                           ![u].result = IF notHost THEN "false" ELSE "none"]
  /\ UNCHANGED <<host_lock, room_state, room_members, rowLock, clock>>
  /\ UNCHANGED <<roomVars, playerVars, probeVars, uiVars>>

\* transfer_host: UPDATE host_lock SET host_user_id = new_host_id (no row: no effect)
transfer_host_update_lock(u) ==
  /\ txn[u].fn = "transfer_host" /\ txn[u].pc = "update_lock"
  /\ IF host_lock = NULL
     THEN /\ txn' = [txn EXCEPT ![u].pc = "update_state"]
          /\ UNCHANGED rowLock
     ELSE /\ rowLock.host_lock = NULL
          /\ rowLock' = [rowLock EXCEPT !.host_lock = u]
          /\ txn' = [txn EXCEPT ![u].pc = "update_state",
                                ![u].wLock = txn[u].new_host_id]
  /\ UNCHANGED <<host_lock, room_state, room_members, clock>>
  /\ UNCHANGED <<roomVars, playerVars, probeVars, uiVars>>

\* transfer_host: UPDATE room_state SET host_user_id = new_host_id; RETURN TRUE
transfer_host_update_state(u) ==
  /\ txn[u].fn = "transfer_host" /\ txn[u].pc = "update_state"
  /\ rowLock.room_state = NULL
  /\ rowLock' = [rowLock EXCEPT !.room_state = u]
  /\ txn' = [txn EXCEPT ![u].pc = "commit", ![u].result = "true",
                        ![u].wState = [host_user_id |-> txn[u].new_host_id]]
  /\ UNCHANGED <<host_lock, room_state, room_members, clock>>
  /\ UNCHANGED <<roomVars, playerVars, probeVars, uiVars>>

\* supabaseApi.updateRoomState: from('room_state').update(updates).eq('room_id', ..)
updateRoomState(u, updates) ==
  /\ BeginTxn(u, "updateRoomState", "update", NULL, updates)
  /\ UNCHANGED <<host_lock, room_state, room_members, rowLock>>
  /\ UNCHANGED <<roomVars, playerVars, probeVars, uiVars>>

\* The UPDATE statement under the policy "Room members can update room state":
\* a non-member matches no row and .single() fails.
room_state_update(u) ==
  /\ txn[u].fn = "updateRoomState" /\ txn[u].pc = "update"
  /\ IF u \in room_members
     THEN /\ rowLock.room_state = NULL
          /\ rowLock' = [rowLock EXCEPT !.room_state = u]
          /\ txn' = [txn EXCEPT ![u].pc = "commit", ![u].result = "row",
                                ![u].wState = txn[u].patch]
     ELSE /\ txn' = [txn EXCEPT ![u].pc = "commit", ![u].result = "error"]
          /\ UNCHANGED rowLock
  /\ UNCHANGED <<host_lock, room_state, room_members, clock>>
  /\ UNCHANGED <<roomVars, playerVars, probeVars, uiVars>>

\* The row an UPDATE of transaction u leaves: SET columns, then the trigger.
UpdatedRow(u) ==
  update_updated_at_column(ApplyPatch(room_state, txn[u].wState), txn[u].start)

\* The room_state channel of viewer c is open: subscribed, and not unsubscribed
\* since. "left" is a Room page that was unmounted with its channels still open.
SubscriptionOpen(c) == view[c] \in {"subscribed", "left"}

\* supabase_realtime publication of room_state: every open subscription is sent
\* payload.new, the row as the UPDATE left it. Delivery is unordered.
Publish(row) ==
  [c \in Viewers |-> IF SubscriptionOpen(c) THEN channel[c] \cup {row}
                                                ELSE channel[c]]

\* COMMIT: the transaction's writes become visible and its row locks are released;
\* a changed room_state row is published.
Commit(u) ==
  /\ txn[u].pc = "commit"
  /\ host_lock' = IF rowLock.host_lock = u THEN txn[u].wLock ELSE host_lock
  /\ room_state' = IF rowLock.room_state = u THEN UpdatedRow(u) ELSE room_state
  /\ rowLock' = [t \in DOMAIN rowLock |-> IF rowLock[t] = u THEN NULL ELSE rowLock[t]]
  /\ txn' = [txn EXCEPT ![u].pc = "done"]
  /\ channel' = IF rowLock.room_state = u THEN Publish(UpdatedRow(u)) ELSE channel
  /\ room_members' = IF txn[u].wMember = "insert" THEN room_members \cup {u}
                     ELSE IF txn[u].wMember = "delete" THEN room_members \ {u}
                     ELSE room_members
  /\ UNCHANGED <<clock, view, videoState, hostState, connected, playerVars,
                 probeVars, uiVars>>

\* The caller has the result; the next call may start.
Return(u) ==
  /\ txn[u].pc = "done"
  /\ txn' = [txn EXCEPT ![u] = Idle]
  /\ UNCHANGED <<host_lock, room_state, room_members, rowLock, clock>>
  /\ UNCHANGED <<roomVars, playerVars, probeVars, uiVars>>

\* supabaseApi.joinRoom: first "Check if user is already a member".
joinRoom(u) ==
  /\ BeginTxn(u, "joinRoom", "select", NULL, <<>>)
  /\ UNCHANGED <<host_lock, room_state, room_members, rowLock>>
  /\ UNCHANGED <<roomVars, playerVars, probeVars, uiVars>>

\* joinRoom: the SELECT of the caller's own row; "if (existingMember) return".
joinRoom_select(u) ==
  /\ txn[u].fn = "joinRoom" /\ txn[u].pc = "select"
  /\ txn' = [txn EXCEPT ![u].pc = IF u \in room_members THEN "commit" ELSE "insert",
                        ![u].result = IF u \in room_members THEN "ok" ELSE "none"]
  /\ UNCHANGED <<host_lock, room_state, room_members, rowLock, clock>>
  /\ UNCHANGED <<roomVars, playerVars, probeVars, uiVars>>

\* The BEFORE INSERT trigger enforce_room_capacity: COUNT(*) of the room's rows that
\* the statement can see, which are the committed ones, against rooms.capacity.
check_room_capacity == Cardinality(room_members) >= Capacity

\* joinRoom: the INSERT into room_members. The trigger raises 'Room is full'; a row
\* of the same user violates UNIQUE(room_id, user_id), code 23505, which joinRoom
\* takes as success.
joinRoom_insert(u) ==
  /\ txn[u].fn = "joinRoom" /\ txn[u].pc = "insert"
  /\ txn' = [txn EXCEPT ![u].pc = "commit",
                        ![u].result = IF check_room_capacity THEN "error" ELSE "ok",
                        ![u].wMember = IF check_room_capacity \/ u \in room_members
                                       THEN "none" ELSE "insert"]
  /\ UNCHANGED <<host_lock, room_state, room_members, rowLock, clock>>
  /\ UNCHANGED <<roomVars, playerVars, probeVars, uiVars>>

\* supabaseApi.leaveRoom: DELETE FROM room_members of the caller's own row.
supabaseApi_leaveRoom(u) ==
  /\ BeginTxn(u, "leaveRoom", "delete", NULL, <<>>)
  /\ UNCHANGED <<host_lock, room_state, room_members, rowLock>>
  /\ UNCHANGED <<roomVars, playerVars, probeVars, uiVars>>

leaveRoom_delete(u) ==
  /\ txn[u].fn = "leaveRoom" /\ txn[u].pc = "delete"
  /\ txn' = [txn EXCEPT ![u].pc = "commit", ![u].result = "ok",
                        ![u].wMember = IF u \in room_members THEN "delete" ELSE "none"]
  /\ UNCHANGED <<host_lock, room_state, room_members, rowLock, clock>>
  /\ UNCHANGED <<roomVars, playerVars, probeVars, uiVars>>

\* ------------------------------------------------------------ database specification
\* Patches the room-state writers of the client send (position, paused).
DbPatches == {[position |-> 1000], [paused |-> FALSE, position |-> 0]}

\* No VideoPlayer is mounted: the component's useState defaults and the store's
\* initial connectionState.
UnmountedPlayer == [currentTime |-> 0, playbackRate |-> 100, paused |-> TRUE]

NoPlayer ==
  /\ variant = "none"
  /\ player = UnmountedPlayer
  /\ isSeeking = FALSE
  /\ localTime = 0
  /\ lastStateUpdate = 0
  /\ lastSyncTime = 0
  /\ connectionState = [rtt |-> 0, offset |-> 0, drift |-> 0, lastSync |-> 0]
  /\ now = Epoch
  /\ tickDue = 0
  /\ revertTimers = {}
  /\ resumeTimers = {}
  /\ effectPending = FALSE
  /\ timeupdate = "none"
  /\ sent = {}

\* No clock probe is in flight and no ping promise has been made.
NoProbe == [phase |-> "idle", sentAt |-> 0, serverNow |-> 0]

NoPingResult == [status |-> "none", rtt |-> 0]

ProbesIdle ==
  /\ probe = NoProbe
  /\ ping = NoProbe
  /\ pingResult = NoPingResult
  /\ wire = {}
  /\ listeners = {}
  /\ socket = "null"
  /\ connectionAttempts = 0
  /\ isManualDisconnect = FALSE
  /\ reconnectTimers = {}
  /\ probes = 0

\* No handler is suspended at an await.
NoHandler == [by |-> "none", paused |-> TRUE, position |-> 0, lastUpdated |-> 0,
              rate |-> 0]

\* No handler of the host controls has run.
ControlsIdle ==
  /\ isUpdatingState = FALSE
  /\ awaiting = NoHandler
  /\ unlockTimers = {}
  /\ inputs = 0
  /\ uiWrites = <<>>
  /\ dragging = FALSE

DbInit ==
  /\ host_lock = NULL
  /\ room_state = InitialRoomState
  /\ room_members = Users
  /\ txn = [u \in Users |-> Idle]
  /\ rowLock = [host_lock |-> NULL, room_state |-> NULL]
  /\ clock = 0
  /\ view = [c \in Viewers |-> "closed"]
  /\ videoState = [c \in Viewers |-> InitialVideoState]
  /\ hostState = [c \in Viewers |-> InitialHostState]
  /\ channel = [c \in Viewers |-> {}]
  /\ connected = [c \in Viewers |-> FALSE]
  /\ NoPlayer
  /\ ProbesIdle
  /\ ControlsIdle

DbStep(u) ==
  \/ claim_host_select(u)
  \/ claim_host_insert(u)
  \/ claim_host_update(u)
  \/ transfer_host_select(u)
  \/ transfer_host_update_lock(u)
  \/ transfer_host_update_state(u)
  \/ room_state_update(u)
  \/ Commit(u)
  \/ Return(u)

DbNext ==
  \E u \in Users :
    \/ claimHost(u)
    \/ \E v \in Users \ {u} : transferHost(u, v)
    \/ \E p \in DbPatches : updateRoomState(u, p)
    \/ DbStep(u)

SpecDb == DbInit /\ [][DbNext]_vars

\* Membership and the host: users join and leave the room and claim and transfer
\* the host. The room starts with any set of members within its capacity.
MembersInit ==
  /\ host_lock = NULL
  /\ room_state = InitialRoomState
  /\ room_members \in {m \in SUBSET Users : Cardinality(m) <= Capacity}
  /\ txn = [u \in Users |-> Idle]
  /\ rowLock = [host_lock |-> NULL, room_state |-> NULL]
  /\ clock = 0
  /\ view = [c \in Viewers |-> "closed"]
  /\ videoState = [c \in Viewers |-> InitialVideoState]
  /\ hostState = [c \in Viewers |-> InitialHostState]
  /\ channel = [c \in Viewers |-> {}]
  /\ connected = [c \in Viewers |-> FALSE]
  /\ NoPlayer
  /\ ProbesIdle
  /\ ControlsIdle

MembersNext ==
  \E u \in Users :
    \/ joinRoom(u)
    \/ joinRoom_select(u)
    \/ joinRoom_insert(u)
    \/ supabaseApi_leaveRoom(u)
    \/ leaveRoom_delete(u)
    \/ claimHost(u)
    \/ claim_host_select(u)
    \/ claim_host_insert(u)
    \/ claim_host_update(u)
    \/ \E v \in Users \ {u} : transferHost(u, v)
    \/ transfer_host_select(u)
    \/ transfer_host_update_lock(u)
    \/ transfer_host_update_state(u)
    \/ Commit(u)
    \/ Return(u)

SpecMembers == MembersInit /\ [][MembersNext]_vars

\* ------------------------------------------------------------ Room page
\* What Room.tsx stores from a room_state row, on hydration and on a notification:
\* setVideoState({...}) and setHostState({...}).
VideoStateOf(row) == [paused |-> row.paused, position |-> row.position,
                      playbackRate |-> row.playback_rate,
                      hostId |-> row.host_user_id, lastUpdated |-> row.updated_at]

HostStateOf(row, userId) == [isHost |-> row.host_user_id = userId,
                             canBecomeHost |-> row.host_user_id = NULL]

\* initializeRoom: getRoomState, then "Set initial state".
initializeRoom_read(c) ==
  /\ view[c] = "closed"
  /\ view' = [view EXCEPT ![c] = "hydrated"]
  /\ videoState' = [videoState EXCEPT ![c] = VideoStateOf(room_state)]
  /\ hostState' = [hostState EXCEPT ![c] = HostStateOf(room_state, c)]
  /\ UNCHANGED <<probeVars, uiVars, dbVars, channel, connected, playerVars>>

\* initializeRoom: "Setup real-time subscriptions", after loadRoomVideos.
initializeRoom_subscribe(c) ==
  /\ view[c] = "hydrated"
  /\ view' = [view EXCEPT ![c] = "subscribed"]
  /\ connected' = [connected EXCEPT ![c] = TRUE]
  /\ UNCHANGED <<probeVars, uiVars, dbVars, videoState, hostState, channel, playerVars>>

\* The subscribeToRoomState callback of Room.tsx on one notification. The transport
\* is at-least-once: the notification may stay in flight and arrive again.
Deliver(c, newState, again) ==
  /\ SubscriptionOpen(c)
  /\ newState \in channel[c]
  /\ videoState' = [videoState EXCEPT ![c] = VideoStateOf(newState)]
  /\ hostState' = [hostState EXCEPT ![c] = HostStateOf(newState, c)]
  /\ channel' = [channel EXCEPT ![c] = IF again THEN @ ELSE @ \ {newState}]
  /\ UNCHANGED <<probeVars, uiVars, dbVars, view, connected, playerVars>>

\* The Room page is unmounted (or its effect re-runs for another room id). The
\* effect of initializeRoom has no cleanup: the function that unsubscribes is the
\* resolved value of the promise initializeRoom() returns, which nothing reads. The
\* unmount effect runs reset().
leaveRoom(c) ==
  /\ view[c] \in {"subscribed", "lost"}
  /\ view' = [view EXCEPT ![c] = IF view[c] = "subscribed" THEN "left" ELSE "closed"]
  /\ videoState' = [videoState EXCEPT ![c] = InitialVideoState]
  /\ hostState' = [hostState EXCEPT ![c] = InitialHostState]
  /\ connected' = [connected EXCEPT ![c] = FALSE]
  /\ UNCHANGED <<probeVars, uiVars, dbVars, channel, playerVars>>

\* The realtime channel of room_state goes down (CHANNEL_ERROR, TIMED_OUT, CLOSED).
\* subscribe() is called without a status callback: no code of the client runs.
subscriptionLost(c) ==
  /\ view[c] = "subscribed"
  /\ view' = [view EXCEPT ![c] = "lost"]
  /\ channel' = [channel EXCEPT ![c] = {}]
  /\ UNCHANGED <<probeVars, uiVars, dbVars, videoState, hostState, connected, playerVars>>

RoomStep(c) ==
  \/ initializeRoom_read(c)
  \/ initializeRoom_subscribe(c)
  \/ \E n \in channel[c], again \in BOOLEAN : Deliver(c, n, again)
  \/ leaveRoom(c)
  \/ subscriptionLost(c)

SyncNext ==
  \/ DbNext
  \/ \E c \in Viewers : RoomStep(c)

SpecSync == DbInit /\ [][SyncNext]_vars

\* HostControls.handleClaimHost up to the rpc call. The button is rendered while the
\* store says the client is not host and may become host.
handleClaimHost(c) ==
  /\ view[c] = "subscribed"
  /\ ~hostState[c].isHost /\ hostState[c].canBecomeHost
  /\ claimHost(c)

\* HostControls.handleTransferHost up to the rpc call. The panel is rendered while
\* the store says the client is host; the target is another member.
handleTransferHost(c, transferTarget) ==
  /\ view[c] = "subscribed"
  /\ hostState[c].isHost
  /\ transferTarget \in room_members \ {c}
  /\ transferHost(c, transferTarget)

\* The rpc of handleClaimHost or handleTransferHost resolves: on success the handler
\* merges its own idea of the outcome into the store's hostState.
HostControls_settled(c) ==
  /\ view[c] = "subscribed"
  /\ txn[c].pc = "done"
  /\ txn[c].fn \in {"claim_host", "transfer_host"}
  /\ hostState' =
       IF txn[c].result # "true" THEN hostState
       ELSE IF txn[c].fn = "claim_host"
         THEN [hostState EXCEPT ![c] = [isHost |-> TRUE, canBecomeHost |-> FALSE]]
         ELSE [hostState EXCEPT ![c] = [isHost |-> FALSE, canBecomeHost |-> TRUE]]
  /\ txn' = [txn EXCEPT ![c] = Idle]
  /\ UNCHANGED <<host_lock, room_state, room_members, rowLock, clock, view, videoState,
                 channel, connected, playerVars, probeVars, uiVars>>

\* Every user has the Room page open on a room without a host: the initial read is
\* stored and the subscription is open.
ControlsInit ==
  /\ host_lock = NULL
  /\ room_state = InitialRoomState
  /\ room_members = Users
  /\ txn = [u \in Users |-> Idle]
  /\ rowLock = [host_lock |-> NULL, room_state |-> NULL]
  /\ clock = 0
  /\ view = [c \in Viewers |-> "subscribed"]
  /\ videoState = [c \in Viewers |-> VideoStateOf(room_state)]
  /\ hostState = [c \in Viewers |-> HostStateOf(room_state, c)]
  /\ channel = [c \in Viewers |-> {}]
  /\ connected = [c \in Viewers |-> TRUE]
  /\ NoPlayer
  /\ ProbesIdle
  /\ ControlsIdle

\* Users with a modelled client act through HostControls; the others call the rpcs.
ControlsNext ==
  \/ \E c \in Viewers :
       \/ handleClaimHost(c)
       \/ \E v \in Users : handleTransferHost(c, v)
       \/ HostControls_settled(c)
       \/ \E n \in channel[c] : Deliver(c, n, FALSE)
  \/ \E u \in Users \ Viewers :
       \/ claimHost(u)
       \/ \E v \in Users \ {u} : transferHost(u, v)
       \/ Return(u)
  \/ \E u \in Users :
       \/ claim_host_select(u)
       \/ claim_host_insert(u)
       \/ claim_host_update(u)
       \/ transfer_host_select(u)
       \/ transfer_host_update_lock(u)
       \/ transfer_host_update_state(u)
       \/ Commit(u)

SpecControls == ControlsInit /\ [][ControlsNext]_vars

\* ------------------------------------------------------------ VideoPlayer
\* The component of one browser, that of viewer Local. Two VideoPlayer components
\* exist: the enhanced one (HTML video element, four-tier drift correction) and the
\* simple one (ReactPlayer, one threshold). Of the simple one the drift monitor and
\* the Sync button are modelled.
Local == 1

Abs(x) == IF x >= 0 THEN x ELSE -x

\* x * num / den on JavaScript numbers, kept to whole milliseconds.
Scale(x, num, den) == IF x >= 0 THEN (x * num) \div den ELSE -(((-x) * num) \div den)

\* videoState.playbackRate || 1.0
OrDefault(rate) == IF rate = 0 THEN 100 ELSE rate

\* The playback rate buttons of the host.
Rates == {50, 75, 100, 125, 150, 200}

\* Dependency lists of the video state sync effect and of calculateDrift.
EffectDeps == <<videoState[Local].paused, videoState[Local].position,
                videoState[Local].playbackRate, videoState[Local].lastUpdated,
                localTime, isSeeking, hostState[Local].isHost, lastStateUpdate,
                connectionState.rtt>>

TickDeps == <<videoState[Local].position, hostState[Local].isHost, isSeeking,
              videoState[Local].playbackRate>>

\* What React and the media element do after a handler of the enhanced player has
\* run: the sync effect is scheduled when one of its dependencies changed, the
\* drift interval is restarted when calculateDrift was re-created, and a change of
\* currentTime raises a timeupdate event, which the media element delivers to the
\* listener asynchronously, here by the next instant.
Raise(event) ==
  IF event = "none" /\ player'.currentTime # player.currentTime THEN "raised" ELSE event

Rerender(event) ==
  /\ effectPending' = (effectPending \/ EffectDeps' # EffectDeps)
  /\ tickDue' = IF TickDeps' # TickDeps THEN now' + 2000 ELSE tickDue
  /\ timeupdate' = Raise(event)

\* calculateDrift without the isSeeking test of its first line: a tick corrects the
\* player while the user drags the slider.
calculateDrift_IgnoresSeeking ==
  /\ variant = "enhanced"
  /\ tickDue < now + StepMs
  /\ LET actualPosition == player.currentTime
         expectedPosition == videoState[Local].position
         drift == Abs(expectedPosition - actualPosition)
         targetTime == actualPosition + Scale(expectedPosition - actualPosition, 1, 10)
         speedAdjustment == IF expectedPosition > actualPosition THEN 105 ELSE 95
     IN  IF hostState[Local].isHost
           THEN UNCHANGED <<connectionState, player, localTime, revertTimers>>
           ELSE /\ connectionState' = [connectionState EXCEPT !.drift = drift]
                /\ IF drift > 5000
                     THEN /\ player' = [player EXCEPT !.currentTime = expectedPosition]
                          /\ localTime' = expectedPosition
                          /\ UNCHANGED revertTimers
                     ELSE IF drift > 2000
                       THEN /\ player' = [player EXCEPT !.currentTime = targetTime]
                            /\ localTime' = targetTime
                            /\ UNCHANGED revertTimers
                       ELSE IF drift > 1000
                         THEN /\ player' = [player EXCEPT !.playbackRate = speedAdjustment]
                              /\ revertTimers' = revertTimers \cup
                                   {[due |-> now + 2000,
                                     rate |-> OrDefault(videoState[Local].playbackRate)]}
                              /\ UNCHANGED localTime
                         ELSE UNCHANGED <<player, localTime, revertTimers>>
  /\ UNCHANGED <<probeVars, uiVars, dbVars, roomVars, variant, isSeeking, lastStateUpdate, lastSyncTime,
                 now, resumeTimers, sent>>
  /\ effectPending' = (effectPending \/ EffectDeps' # EffectDeps)
  /\ tickDue' = now + 2000
  /\ timeupdate' = Raise(timeupdate)

\* setInterval(calculateDrift, 2000) of the enhanced player fires.
calculateDrift ==
  /\ variant = "enhanced"
  /\ tickDue < now + StepMs
  /\ LET actualPosition == player.currentTime
         expectedPosition == videoState[Local].position
         drift == Abs(expectedPosition - actualPosition)
         targetTime == actualPosition + Scale(expectedPosition - actualPosition, 1, 10)
         speedAdjustment == IF expectedPosition > actualPosition THEN 105 ELSE 95
     IN  IF hostState[Local].isHost \/ isSeeking
           THEN UNCHANGED <<connectionState, player, localTime, revertTimers>>
           ELSE /\ connectionState' = [connectionState EXCEPT !.drift = drift]
                /\ IF drift > 5000
                     THEN /\ player' = [player EXCEPT !.currentTime = expectedPosition]
                          /\ localTime' = expectedPosition
                          /\ UNCHANGED revertTimers
                     ELSE IF drift > 2000
                       THEN /\ player' = [player EXCEPT !.currentTime = targetTime]
                            /\ localTime' = targetTime
                            /\ UNCHANGED revertTimers
                       ELSE IF drift > 1000
                         THEN /\ player' = [player EXCEPT !.playbackRate = speedAdjustment]
                              /\ revertTimers' = revertTimers \cup
                                   {[due |-> now + 2000,
                                     rate |-> OrDefault(videoState[Local].playbackRate)]}
                              /\ UNCHANGED localTime
                         ELSE UNCHANGED <<player, localTime, revertTimers>>
  /\ UNCHANGED <<probeVars, uiVars, dbVars, roomVars, variant, isSeeking, lastStateUpdate, lastSyncTime,
                 now, resumeTimers, sent>>
  /\ effectPending' = (effectPending \/ EffectDeps' # EffectDeps)
  /\ tickDue' = now + 2000
  /\ timeupdate' = Raise(timeupdate)

\* rateReset with the assignment to playbackRate lost: the timer runs out and the
\* player keeps the adjusted rate.
rateReset_KeepsRate(t) ==
  /\ variant = "enhanced"
  /\ t \in revertTimers
  /\ t.due < now + StepMs
  /\ revertTimers' = revertTimers \ {t}
  /\ UNCHANGED <<probeVars, uiVars, dbVars, roomVars, variant, player, isSeeking, localTime, lastStateUpdate,
                 lastSyncTime, connectionState, now, resumeTimers, sent>>
  /\ Rerender(timeupdate)

\* The setTimeout of the rate adjustment: "Reset to normal speed after correction".
rateReset(t) ==
  /\ variant = "enhanced"
  /\ t \in revertTimers
  /\ t.due < now + StepMs
  /\ player' = [player EXCEPT !.playbackRate = t.rate]
  /\ revertTimers' = revertTimers \ {t}
  /\ UNCHANGED <<probeVars, uiVars, dbVars, roomVars, variant, isSeeking, localTime, lastStateUpdate,
                 lastSyncTime, connectionState, now, resumeTimers, sent>>
  /\ Rerender(timeupdate)

\* The timeupdate listener of the enhanced player.
handleProgress ==
  /\ variant = "enhanced"
  /\ timeupdate = "ready"
  /\ LET currentTime == player.currentTime
         syncInterval == IF videoState[Local].paused THEN 3000 ELSE 2000
         broadcast == hostState[Local].isHost /\ now - lastSyncTime > syncInterval
     IN  IF isSeeking
           THEN UNCHANGED <<localTime, videoState, sent, lastSyncTime>>
           ELSE /\ localTime' = currentTime
                /\ videoState' = [videoState EXCEPT ![Local].position = currentTime]
                /\ sent' = IF broadcast
                             THEN sent \cup {[by |-> "handleProgress", isHost |-> TRUE]}
                             ELSE sent
                /\ lastSyncTime' = IF broadcast THEN now ELSE lastSyncTime
  /\ UNCHANGED <<probeVars, uiVars, dbVars, view, hostState, channel, connected, variant, player, isSeeking,
                 lastStateUpdate, connectionState, now, revertTimers, resumeTimers>>
  /\ Rerender("none")

\* The "sync video state when it changes" effect of the enhanced player.
videoStateSyncEffect ==
  /\ variant = "enhanced"
  /\ effectPending
  /\ IF now - lastStateUpdate < 100
       THEN UNCHANGED <<player, localTime, lastStateUpdate, resumeTimers>>
       ELSE LET vs == videoState[Local]
                shouldPlay == ~vs.paused
                pausedNow == IF shouldPlay /\ player.paused THEN FALSE
                             ELSE IF ~shouldPlay /\ ~player.paused THEN TRUE
                             ELSE player.paused
                targetRate == OrDefault(vs.playbackRate)
                rateNow == IF Abs(player.playbackRate - targetRate) > 1
                             THEN targetRate ELSE player.playbackRate
                positionSync == ~isSeeking /\ ~hostState[Local].isHost
                actualPosition == player.currentTime
                timeSinceUpdate == now - vs.lastUpdated
                expectedPosition ==
                  IF ~vs.paused /\ timeSinceUpdate > 0 /\ timeSinceUpdate < 10000
                    THEN vs.position + Scale(timeSinceUpdate, targetRate, 100)
                                     + connectionState.rtt \div 2
                    ELSE vs.position
                timeDiff == Abs(actualPosition - expectedPosition)
                isLikelySeek == \/ timeDiff > 3000
                                \/ timeSinceUpdate < 1000 /\ timeDiff > 500
                                \/ vs.lastUpdated # 0 /\ vs.lastUpdated > lastStateUpdate
                smoothTarget == actualPosition
                                  + Scale(expectedPosition - actualPosition, 3, 10)
                moved == positionSync /\ (isLikelySeek \/ timeDiff > 1000)
                briefPause == positionSync /\ isLikelySeek /\ ~vs.paused
                newTime == IF ~moved THEN actualPosition
                           ELSE IF isLikelySeek \/ timeDiff > 5000 THEN expectedPosition
                           ELSE smoothTarget
            IN  /\ player' = [currentTime |-> newTime, playbackRate |-> rateNow,
                              paused |-> IF briefPause THEN TRUE ELSE pausedNow]
                /\ localTime' = IF moved THEN newTime ELSE localTime
                /\ resumeTimers' = IF briefPause
                                     THEN resumeTimers \cup
                                            {[due |-> now + 100, wasPaused |-> pausedNow]}
                                     ELSE resumeTimers
                /\ lastStateUpdate' = IF vs.lastUpdated # 0 /\ vs.lastUpdated # lastStateUpdate
                                        THEN vs.lastUpdated ELSE lastStateUpdate
  /\ UNCHANGED <<probeVars, uiVars, dbVars, roomVars, variant, isSeeking, lastSyncTime, connectionState,
                 now, revertTimers, sent>>
  /\ effectPending' = (EffectDeps' # EffectDeps)
  /\ tickDue' = IF TickDeps' # TickDeps THEN now + 2000 ELSE tickDue
  /\ timeupdate' = Raise(timeupdate)

\* The setTimeout of the effect's seek branch: "Brief pause for smooth seeking
\* experience". It is only set while videoState.paused is false.
resumeAfterSeek(t) ==
  /\ variant = "enhanced"
  /\ t \in resumeTimers
  /\ t.due < now + StepMs
  /\ player' = IF ~t.wasPaused THEN [player EXCEPT !.paused = FALSE] ELSE player
  /\ resumeTimers' = resumeTimers \ {t}
  /\ UNCHANGED <<probeVars, uiVars, dbVars, roomVars, variant, isSeeking, localTime, lastStateUpdate,
                 lastSyncTime, connectionState, now, revertTimers, sent>>
  /\ Rerender(timeupdate)

\* handleSyncNow of the enhanced player, reached from the Sync button, which is
\* disabled while hostState.isHost.
handleSyncNow ==
  /\ variant = "enhanced"
  /\ ~hostState[Local].isHost
  /\ sent' = sent \cup {[by |-> "handleSyncNow", isHost |-> hostState[Local].isHost]}
  /\ UNCHANGED <<probeVars, uiVars, dbVars, roomVars, variant, player, isSeeking, localTime,
                 lastStateUpdate, lastSyncTime, connectionState, now, tickDue,
                 revertTimers, resumeTimers, effectPending, timeupdate>>

\* setInterval(calculateDrift, 3000) of the simple player fires.
VideoPlayer_calculateDrift ==
  /\ variant = "simple"
  /\ tickDue < now + StepMs
  /\ LET actualPosition == player.currentTime
         expectedPosition == videoState[Local].position
         drift == Abs(expectedPosition - actualPosition)
     IN  /\ connectionState' = [connectionState EXCEPT !.drift = drift]
         /\ IF drift > 2000 /\ ~hostState[Local].isHost /\ ~isSeeking
              THEN /\ player' = [player EXCEPT !.currentTime = expectedPosition]
                   /\ localTime' = expectedPosition
              ELSE UNCHANGED <<player, localTime>>
  /\ tickDue' = now + 3000
  /\ UNCHANGED <<probeVars, uiVars, dbVars, roomVars, variant, isSeeking, lastStateUpdate, lastSyncTime,
                 now, revertTimers, resumeTimers, effectPending, timeupdate, sent>>

\* handleSyncNow of the simple player (Sync button, disabled while hostState.isHost):
\* a local seek to videoState.position.
VideoPlayer_handleSyncNow ==
  /\ variant = "simple"
  /\ ~hostState[Local].isHost
  /\ player' = [player EXCEPT !.currentTime = videoState[Local].position]
  /\ localTime' = videoState[Local].position
  /\ UNCHANGED <<probeVars, uiVars, dbVars, roomVars, variant, isSeeking, lastStateUpdate, lastSyncTime,
                 connectionState, now, tickDue, revertTimers, resumeTimers,
                 effectPending, timeupdate, sent>>

\* StepMs of time pass. A media element that is not paused plays at its playback
\* rate unless it is stalled waiting for data. Timers, effects and events that are
\* due run before more time passes.
Advance(stalled) ==
  /\ variant # "none"
  /\ now + StepMs <= MaxNow
  /\ tickDue >= now + StepMs
  /\ \A t \in revertTimers \cup resumeTimers : t.due >= now + StepMs
  /\ ~effectPending
  /\ timeupdate # "ready"
  /\ now' = now + StepMs
  /\ player' = IF player.paused \/ stalled THEN player
               ELSE [player EXCEPT !.currentTime = @ + Scale(StepMs, player.playbackRate, 100)]
  /\ timeupdate' = IF variant = "enhanced"
                       /\ (timeupdate = "raised" \/ player'.currentTime # player.currentTime)
                    THEN "ready" ELSE "none"
  /\ UNCHANGED <<probeVars, uiVars, dbVars, roomVars, variant, isSeeking, localTime, lastStateUpdate,
                 lastSyncTime, connectionState, tickDue, revertTimers, resumeTimers,
                 effectPending, sent>>

\* Positions and round-trip times the observed player starts from.
Positions == {0, 1000, 2500, 3000, 8000}

RttValues == {0, 100}

\* A room whose host has loaded a video; viewer Local has the Room page open and
\* has just stored a room_state notification. lastStateUpdate is Epoch when the
\* previous notification was stamped less than 100 ms earlier.
PlayerInit ==
  \E v \in {"enhanced", "simple"}, h \in Users, paused \in BOOLEAN, seeking \in BOOLEAN,
     position \in Positions, actual \in Positions, rate \in Rates,
     lsu \in {0, Epoch}, rtt \in RttValues :
    /\ room_state = [host_user_id |-> h, paused |-> paused, position |-> position,
                     playback_rate |-> rate, updated_at |-> Epoch]
    /\ host_lock = h
    /\ room_members = Users
    /\ txn = [u \in Users |-> Idle]
    /\ rowLock = [host_lock |-> NULL, room_state |-> NULL]
    /\ clock = 0
    /\ view = [c \in Viewers |-> IF c = Local THEN "subscribed" ELSE "closed"]
    /\ videoState = [c \in Viewers |-> IF c = Local THEN VideoStateOf(room_state)
                                                    ELSE InitialVideoState]
    /\ hostState = [c \in Viewers |-> IF c = Local THEN HostStateOf(room_state, Local)
                                                   ELSE InitialHostState]
    /\ channel = [c \in Viewers |-> {}]
    /\ connected = [c \in Viewers |-> c = Local]
    /\ variant = v
    /\ player = [currentTime |-> actual, playbackRate |-> rate, paused |-> paused]
    /\ isSeeking = seeking
    /\ localTime = actual
    /\ lastStateUpdate = lsu
    /\ lastSyncTime = 0
    /\ connectionState = [rtt |-> rtt, offset |-> 0, drift |-> 0, lastSync |-> Epoch]
    /\ now = Epoch
    /\ tickDue = Epoch + (IF v = "enhanced" THEN 2000 ELSE 3000)
    /\ revertTimers = {}
    /\ resumeTimers = {}
    /\ effectPending = (v = "enhanced")
    /\ timeupdate = "none"
    /\ sent = {}
    /\ ProbesIdle
    /\ ControlsIdle

PlayerNext ==
  \/ calculateDrift
  \/ \E t \in revertTimers : rateReset(t)
  \/ handleProgress
  \/ videoStateSyncEffect
  \/ \E t \in resumeTimers : resumeAfterSeek(t)
  \/ handleSyncNow
  \/ VideoPlayer_calculateDrift
  \/ VideoPlayer_handleSyncNow
  \/ \E stalled \in BOOLEAN : Advance(stalled)

SpecPlayer == PlayerInit /\ [][PlayerNext]_vars

\* The Room callback stores a notification while the player is mounted: the store
\* changes, the player renders again and its effects see the new videoState.
roomStateCallback(newState) ==
  /\ variant = "enhanced"
  /\ SubscriptionOpen(Local)
  /\ newState \in channel[Local]
  /\ newState.updated_at <= now
  /\ videoState' = [videoState EXCEPT ![Local] = VideoStateOf(newState)]
  /\ hostState' = [hostState EXCEPT ![Local] = HostStateOf(newState, Local)]
  /\ channel' = [channel EXCEPT ![Local] = @ \ {newState}]
  /\ UNCHANGED <<probeVars, uiVars, dbVars, view, connected, variant, player, isSeeking,
                 localTime, lastStateUpdate, lastSyncTime, connectionState, now,
                 revertTimers, resumeTimers, sent>>
  /\ Rerender(timeupdate)

\* The rates the host changes to while the viewer watches.
NewRates == {100, 150}

\* A viewer who is not the host watches the room; the host (user 2) has just
\* changed the playback rate, and the notification of that write is on its way.
NudgeInit ==
  \E paused \in BOOLEAN, position \in Positions, actual \in Positions,
     rate \in NewRates, newRate \in NewRates, sentAt \in {Epoch, Epoch + StepMs} :
    /\ newRate # rate
    /\ room_state = [host_user_id |-> 2, paused |-> paused, position |-> position,
                     playback_rate |-> newRate, updated_at |-> sentAt]
    /\ host_lock = 2
    /\ room_members = Users
    /\ txn = [u \in Users |-> Idle]
    /\ rowLock = [host_lock |-> NULL, room_state |-> NULL]
    /\ clock = 0
    /\ view = [c \in Viewers |-> IF c = Local THEN "subscribed" ELSE "closed"]
    /\ videoState = [c \in Viewers |->
                       IF c = Local
                         THEN VideoStateOf([room_state EXCEPT !.playback_rate = rate,
                                                              !.updated_at = Epoch])
                         ELSE InitialVideoState]
    /\ hostState = [c \in Viewers |-> IF c = Local THEN HostStateOf(room_state, Local)
                                                   ELSE InitialHostState]
    /\ channel = [c \in Viewers |-> IF c = Local THEN {room_state} ELSE {}]
    /\ connected = [c \in Viewers |-> c = Local]
    /\ variant = "enhanced"
    /\ player = [currentTime |-> actual, playbackRate |-> rate, paused |-> paused]
    /\ isSeeking = FALSE
    /\ localTime = actual
    /\ lastStateUpdate = Epoch
    /\ lastSyncTime = 0
    /\ connectionState = [rtt |-> 0, offset |-> 0, drift |-> 0, lastSync |-> Epoch]
    /\ now = Epoch
    /\ tickDue = Epoch + 2000
    /\ revertTimers = {}
    /\ resumeTimers = {}
    /\ effectPending = TRUE
    /\ timeupdate = "none"
    /\ sent = {}
    /\ ProbesIdle
    /\ ControlsIdle

NudgeNext ==
  \/ calculateDrift
  \/ \E t \in revertTimers : rateReset(t)
  \/ handleProgress
  \/ videoStateSyncEffect
  \/ \E t \in resumeTimers : resumeAfterSeek(t)
  \/ \E n \in channel[Local] : roomStateCallback(n)
  \/ \E stalled \in BOOLEAN : Advance(stalled)

SpecNudge == NudgeInit /\ [][NudgeNext]_vars

\* ------------------------------------------------------------ clock probes
\* syncServerTime of the enhanced player starts: beforePing = performance.now(),
\* then await supabaseApi.getRoomState(room.id).
syncServerTime ==
  /\ variant = "enhanced"
  /\ probe.phase = "idle"
  /\ probes < MaxProbes
  /\ probes' = probes + 1
  /\ probe' = [phase |-> "sent", sentAt |-> now, serverNow |-> 0]
  /\ UNCHANGED <<dbVars, roomVars, playerVars, ping, pingResult, wire, listeners, wsVars, uiVars>>

\* The database serves the read; its clock differs from the browser's by skew.
getRoomState_served(skew) ==
  /\ probe.phase = "sent"
  /\ probe' = [probe EXCEPT !.phase = "served", !.serverNow = now + skew]
  /\ UNCHANGED <<dbVars, roomVars, playerVars, ping, pingResult, wire, listeners, wsVars, probes, uiVars>>

\* The await returns: rtt = afterPing - beforePing, setConnectionState.
syncServerTime_resolved ==
  /\ probe.phase = "served"
  /\ connectionState' = [connectionState EXCEPT !.rtt = now - probe.sentAt,
                                                !.offset = 0,
                                                !.lastSync = now]
  /\ probe' = NoProbe
  /\ UNCHANGED <<dbVars, roomVars, variant, player, isSeeking, localTime,
                 lastStateUpdate, lastSyncTime, now, tickDue, revertTimers,
                 resumeTimers, timeupdate, sent, ping, pingResult, wire, listeners, wsVars, probes, uiVars>>
  /\ effectPending' = (effectPending \/ EffectDeps' # EffectDeps)

\* The await throws (ROOM_STATE_ERROR or a network failure): "Fallback to basic sync".
syncServerTime_failed ==
  /\ probe.phase \in {"sent", "served"}
  /\ connectionState' = [connectionState EXCEPT !.rtt = 50,
                                                !.offset = 0,
                                                !.lastSync = now]
  /\ probe' = NoProbe
  /\ UNCHANGED <<dbVars, roomVars, variant, player, isSeeking, localTime,
                 lastStateUpdate, lastSyncTime, now, tickDue, revertTimers,
                 resumeTimers, timeupdate, sent, ping, pingResult, wire, listeners, wsVars, probes, uiVars>>
  /\ effectPending' = (effectPending \/ EffectDeps' # EffectDeps)

\* syncServerTime of the simple player: no request is made.
VideoPlayer_syncServerTime ==
  /\ variant = "simple"
  /\ probes < MaxProbes
  /\ probes' = probes + 1
  /\ connectionState' = [connectionState EXCEPT !.rtt = 0, !.offset = 0,
                                                !.lastSync = now]
  /\ UNCHANGED <<dbVars, roomVars, variant, player, isSeeking, localTime,
                 lastStateUpdate, lastSyncTime, now, tickDue, revertTimers,
                 resumeTimers, effectPending, timeupdate, sent, probe, ping,
                 pingResult, wire, listeners, wsVars, uiVars>>

\* WebSocketManager.ping: rejects at once without a connected socket; otherwise
\* starts the 5000 ms timeout, emits ws:ping and registers a once('ws:pong') listener.
WebSocketManager_ping(socketConnected) ==
  /\ variant # "none"
  /\ ping.phase = "idle"
  /\ probes < MaxProbes
  /\ probes' = probes + 1
  /\ IF socketConnected
       THEN /\ ping' = [phase |-> "sent", sentAt |-> now, serverNow |-> 0]
            /\ wire' = wire \cup {[kind |-> "ping", clientSentAt |-> now, serverNow |-> 0]}
            /\ listeners' = listeners \cup {now}
            /\ UNCHANGED pingResult
       ELSE /\ pingResult' = [status |-> "rejected", rtt |-> 0]
            /\ UNCHANGED <<ping, wire, listeners>>
  /\ UNCHANGED <<dbVars, roomVars, playerVars, probe, wsVars, uiVars>>

\* The socket server answers a ws:ping with ws:pong {serverNow}.
ws_pong_sent(skew) ==
  \E m \in wire :
    /\ m.kind = "ping"
    /\ wire' = (wire \ {m}) \cup {[m EXCEPT !.kind = "pong", !.serverNow = now + skew]}
    /\ UNCHANGED <<dbVars, roomVars, playerVars, probe, ping, pingResult, probes,
                   listeners, wsVars, uiVars>>

\* A ws:pong event arrives: every registered once('ws:pong') listener runs and is
\* removed. A listener does clearTimeout and resolve(Date.now() - startTime);
\* resolve settles only a promise that is still pending. serverNow is not used.
WebSocketManager_pong ==
  \E m \in wire :
    /\ m.kind = "pong"
    /\ ~(ping.phase = "sent" /\ now - ping.sentAt >= 5000)
    /\ wire' = wire \ {m}
    /\ listeners' = {}
    /\ IF ping.phase = "sent" /\ ping.sentAt \in listeners
         THEN /\ pingResult' = [status |-> "resolved", rtt |-> now - ping.sentAt]
              /\ ping' = NoProbe
         ELSE UNCHANGED <<ping, pingResult>>
    /\ UNCHANGED <<dbVars, roomVars, playerVars, probe, probes, wsVars, uiVars>>

\* The 5000 ms timeout of ping: reject(new Error('Ping timeout')). The listener
\* stays registered.
WebSocketManager_pingTimeout ==
  /\ ping.phase = "sent"
  /\ now - ping.sentAt >= 5000
  /\ pingResult' = [status |-> "rejected", rtt |-> 0]
  /\ ping' = NoProbe
  /\ UNCHANGED <<dbVars, roomVars, playerVars, probe, probes, wire, listeners, wsVars,
                 uiVars>>

\* ProbeStepMs of time pass while a probe is in flight; a timeout that is due runs
\* first.  Time that passes while nothing is in flight is not observed.
ProbeWait ==
  /\ probe.phase # "idle" \/ ping.phase # "idle"
  /\ now + ProbeStepMs <= MaxProbeNow
  /\ ~(ping.phase # "idle" /\ now - ping.sentAt >= 5000)
  /\ now' = now + ProbeStepMs
  /\ UNCHANGED <<dbVars, roomVars, variant, player, isSeeking, localTime,
                 lastStateUpdate, lastSyncTime, connectionState, tickDue,
                 revertTimers, resumeTimers, effectPending, timeupdate, sent,
                 probeVars, uiVars>>

\* Differences between the server's clock and the browser's.
Skews == {-500, 0, 50}

\* A mounted player with a stored estimate and no probe in flight.
ProbeInit ==
  \E v \in {"enhanced", "simple"}, rtt \in RttValues :
    /\ host_lock = NULL
    /\ room_state = InitialRoomState
    /\ room_members = Users
    /\ txn = [u \in Users |-> Idle]
    /\ rowLock = [host_lock |-> NULL, room_state |-> NULL]
    /\ clock = 0
    /\ view = [c \in Viewers |-> IF c = Local THEN "subscribed" ELSE "closed"]
    /\ videoState = [c \in Viewers |-> InitialVideoState]
    /\ hostState = [c \in Viewers |-> InitialHostState]
    /\ channel = [c \in Viewers |-> {}]
    /\ connected = [c \in Viewers |-> c = Local]
    /\ variant = v
    /\ player = UnmountedPlayer
    /\ isSeeking = FALSE
    /\ localTime = 0
    /\ lastStateUpdate = 0
    /\ lastSyncTime = 0
    /\ connectionState = [rtt |-> rtt, offset |-> 0, drift |-> 0, lastSync |-> 0]
    /\ now = Epoch
    /\ tickDue = 0
    /\ revertTimers = {}
    /\ resumeTimers = {}
    /\ effectPending = FALSE
    /\ timeupdate = "none"
    /\ sent = {}
    /\ ProbesIdle
    /\ ControlsIdle

ProbeNext ==
  \/ syncServerTime
  \/ \E skew \in Skews : getRoomState_served(skew)
  \/ syncServerTime_resolved
  \/ syncServerTime_failed
  \/ VideoPlayer_syncServerTime
  \/ \E socketConnected \in BOOLEAN : WebSocketManager_ping(socketConnected)
  \/ \E skew \in Skews : ws_pong_sent(skew)
  \/ WebSocketManager_pong
  \/ WebSocketManager_pingTimeout
  \/ ProbeWait

SpecProbe == ProbeInit /\ [][ProbeNext]_vars

\* WebSocketManager's retry limits.
maxRetries == 5
retryDelay == 1000

\* Everything of the model that WebSocketManager's connection handling leaves alone.
WsFrame ==
  UNCHANGED <<dbVars, roomVars, variant, player, isSeeking, localTime, lastStateUpdate,
              lastSyncTime, connectionState, tickDue, revertTimers, resumeTimers,
              effectPending, timeupdate, sent, probe, ping, pingResult, probes, wire,
              listeners, uiVars>>

\* scheduleReconnect: a timeout of retryDelay * 2^connectionAttempts, read when
\* the timeout is set.
scheduleReconnect(attempts) ==
  reconnectTimers \cup {now + retryDelay * 2^attempts}

\* WebSocketManager.connect: returns the socket when it is connected, otherwise
\* clears isManualDisconnect and opens a new socket. connectionAttempts is kept.
WebSocketManager_connect ==
  /\ socket # "connected"
  /\ isManualDisconnect' = FALSE
  /\ socket' = "connecting"
  /\ UNCHANGED <<connectionAttempts, reconnectTimers, now>>
  /\ WsFrame

\* WebSocketManager.disconnect.
WebSocketManager_disconnect ==
  /\ isManualDisconnect' = TRUE
  /\ socket' = "null"
  /\ UNCHANGED <<connectionAttempts, reconnectTimers, now>>
  /\ WsFrame

\* The socket's 'connect' event.
socket_on_connect ==
  /\ socket = "connecting"
  /\ socket' = "connected"
  /\ connectionAttempts' = 0
  /\ UNCHANGED <<isManualDisconnect, reconnectTimers, now>>
  /\ WsFrame

\* The socket's 'disconnect' event when the server or the transport closes it.
socket_on_disconnect ==
  /\ socket = "connected"
  /\ socket' = "closed"
  /\ reconnectTimers' = IF ~isManualDisconnect /\ connectionAttempts < maxRetries
                          THEN scheduleReconnect(connectionAttempts)
                          ELSE reconnectTimers
  /\ Cardinality(reconnectTimers') <= MaxTimers
  /\ UNCHANGED <<connectionAttempts, isManualDisconnect, now>>
  /\ WsFrame

\* The socket's 'connect_error' event.
socket_on_connect_error ==
  /\ socket = "connecting"
  /\ connectionAttempts < MaxAttempts
  /\ socket' = "closed"
  /\ connectionAttempts' = connectionAttempts + 1
  /\ reconnectTimers' = IF connectionAttempts + 1 < maxRetries
                          THEN scheduleReconnect(connectionAttempts + 1)
                          ELSE reconnectTimers
  /\ Cardinality(reconnectTimers') <= MaxTimers
  /\ UNCHANGED <<isManualDisconnect, now>>
  /\ WsFrame

\* A scheduleReconnect timeout fires: socket.connect() unless the disconnect was
\* manual, there is no socket, or the socket is connected.
reconnectTimeout(due) ==
  /\ due \in reconnectTimers
  /\ due <= now
  /\ reconnectTimers' = reconnectTimers \ {due}
  /\ socket' = IF ~isManualDisconnect /\ socket # "null" /\ socket # "connected"
                 THEN "connecting" ELSE socket
  /\ UNCHANGED <<connectionAttempts, isManualDisconnect, now>>
  /\ WsFrame

\* WsStepMs pass; a timeout that is due runs first.
WsWait ==
  /\ now + WsStepMs <= MaxWsNow
  /\ \A due \in reconnectTimers : due > now
  /\ now' = now + WsStepMs
  /\ UNCHANGED wsVars
  /\ WsFrame

ReconnectNext ==
  \/ WebSocketManager_connect
  \/ WebSocketManager_disconnect
  \/ socket_on_connect
  \/ socket_on_disconnect
  \/ socket_on_connect_error
  \/ \E due \in reconnectTimers : reconnectTimeout(due)
  \/ WsWait

SpecReconnect == DbInit /\ [][ReconnectNext]_vars

\* ------------------------------------------------------------ host controls
\* One supabaseApi.updateRoomState call made by a handler for host input number n.
Call(by, n) == [by |-> by, at |-> now, input |-> n]

\* The handler calls supabaseApi.updateRoomState(room.id, updates) and is suspended.
Issue(by, n, updates, saved) ==
  /\ BeginTxn(Local, "updateRoomState", "update", NULL, updates)
  /\ uiWrites' = Append(uiWrites, Call(by, n))
  /\ sent' = sent \cup {[by |-> by, isHost |-> hostState[Local].isHost]}
  /\ awaiting' = [saved EXCEPT !.by = by]
  /\ UNCHANGED <<host_lock, room_state, room_members, rowLock>>

\* handlePlayPause of the enhanced player, up to its await.
handlePlayPause ==
  /\ UNCHANGED dragging
  /\ variant = "enhanced"
  /\ hostState[Local].isHost
  /\ ~isUpdatingState
  /\ ~(now - lastStateUpdate < 1000)
  /\ LET currentPos == player.currentTime
         newPausedState == ~videoState[Local].paused
     IN  /\ isUpdatingState' = TRUE
         /\ lastStateUpdate' = now
         /\ videoState' = [videoState EXCEPT ![Local].paused = newPausedState,
                                             ![Local].position = currentPos,
                                             ![Local].lastUpdated = now]
         /\ player' = [player EXCEPT !.paused = newPausedState]
         /\ inputs' = inputs + 1
         /\ Issue("handlePlayPause", inputs + 1,
                  [paused |-> newPausedState, position |-> currentPos],
                  [NoHandler EXCEPT !.paused = videoState[Local].paused,
                                    !.position = videoState[Local].position,
                                    !.lastUpdated = videoState[Local].lastUpdated])
  /\ UNCHANGED <<view, hostState, channel, connected, variant, isSeeking, localTime, lastSyncTime,
                 connectionState, now, revertTimers, resumeTimers, unlockTimers,
                 probeVars>>
  /\ Rerender(timeupdate)

\* handleSeek of the enhanced player, up to its await.
handleSeek(newTime) ==
  /\ dragging' = FALSE
  /\ variant = "enhanced"
  /\ hostState[Local].isHost
  /\ ~isUpdatingState
  /\ isSeeking' = TRUE
  /\ localTime' = newTime
  /\ player' = [player EXCEPT !.currentTime = newTime]
  /\ isUpdatingState' = TRUE
  /\ inputs' = inputs + 1
  /\ LET networkDelay == connectionState.rtt \div 2
         compensatedTime == newTime + networkDelay
     IN  Issue("handleSeek", inputs + 1,
               [position |-> compensatedTime,
                paused |-> videoState[Local].paused,
                playback_rate |-> OrDefault(videoState[Local].playbackRate),
                updated_at |-> now],
               [NoHandler EXCEPT !.position = compensatedTime])
  /\ UNCHANGED <<roomVars, variant, lastStateUpdate, lastSyncTime, connectionState, now,
                 revertTimers, resumeTimers, unlockTimers, probeVars>>
  /\ Rerender(timeupdate)

\* handlePlaybackRateChange of the enhanced player, up to its await.
handlePlaybackRateChange(newRate) ==
  /\ UNCHANGED dragging
  /\ variant = "enhanced"
  /\ hostState[Local].isHost
  /\ ~isUpdatingState
  /\ isUpdatingState' = TRUE
  /\ inputs' = inputs + 1
  /\ Issue("handlePlaybackRateChange", inputs + 1,
           [playback_rate |-> newRate, position |-> player.currentTime,
            updated_at |-> now],
           [NoHandler EXCEPT !.rate = newRate])
  /\ UNCHANGED <<roomVars, variant, player, isSeeking, localTime, lastStateUpdate,
                 lastSyncTime, connectionState, now, tickDue, revertTimers,
                 resumeTimers, effectPending, timeupdate, unlockTimers, probeVars>>

\* handlePlayPause of the simple player.
VideoPlayer_handlePlayPause ==
  /\ UNCHANGED dragging
  /\ variant = "simple"
  /\ hostState[Local].isHost
  /\ inputs' = inputs + 1
  /\ Issue("VideoPlayer_handlePlayPause", inputs + 1,
           [paused |-> ~videoState[Local].paused, position |-> player.currentTime],
           NoHandler)
  /\ UNCHANGED <<roomVars, variant, player, isSeeking, localTime, lastStateUpdate,
                 lastSyncTime, connectionState, now, tickDue, revertTimers,
                 resumeTimers, effectPending, timeupdate, isUpdatingState,
                 unlockTimers, probeVars>>

\* handleSeek of the simple player, up to its await.
VideoPlayer_handleSeek(newTime) ==
  /\ UNCHANGED dragging
  /\ variant = "simple"
  /\ hostState[Local].isHost
  /\ isSeeking' = TRUE
  /\ localTime' = newTime
  /\ inputs' = inputs + 1
  /\ Issue("VideoPlayer_handleSeek", inputs + 1, [position |-> newTime], NoHandler)
  /\ UNCHANGED <<roomVars, variant, player, lastStateUpdate, lastSyncTime,
                 connectionState, now, tickDue, revertTimers, resumeTimers,
                 effectPending, timeupdate, isUpdatingState, unlockTimers, probeVars>>

\* ReactPlayer of the simple player: the playing prop is !videoState.paused; when it
\* changes the media is played or paused and onPlay / onPause runs.
ReactPlayer_playing ==
  /\ UNCHANGED dragging
  /\ variant = "simple"
  /\ player.paused # videoState[Local].paused
  /\ player' = [player EXCEPT !.paused = videoState[Local].paused]
  /\ IF hostState[Local].isHost
       THEN Issue(IF videoState[Local].paused THEN "onPause" ELSE "onPlay", inputs,
                  [paused |-> videoState[Local].paused,
                   position |-> player.currentTime],
                  NoHandler)
       ELSE UNCHANGED <<dbVars, uiWrites, sent, awaiting>>
  /\ UNCHANGED <<roomVars, variant, isSeeking, localTime, lastStateUpdate, lastSyncTime,
                 connectionState, now, tickDue, revertTimers, resumeTimers,
                 effectPending, timeupdate, isUpdatingState, unlockTimers, inputs,
                 probeVars>>

\* The setTimeout a handler arms once its call has settled.
UnlockTimer(by) ==
  IF by = "handleSeek"
    THEN {[due |-> now + 300, clearsSeeking |-> TRUE, clearsUpdating |-> TRUE]}
  ELSE IF by \in {"handlePlayPause", "handlePlaybackRateChange"}
    THEN {[due |-> now + 500, clearsSeeking |-> FALSE, clearsUpdating |-> TRUE]}
  ELSE IF by = "VideoPlayer_handleSeek"
    THEN {[due |-> now + 100, clearsSeeking |-> TRUE, clearsUpdating |-> FALSE]}
  ELSE {}

\* The updateRoomState promise settles and the suspended handler runs on: the rest
\* of try, or catch, and then finally. The request is lost before the UPDATE ran,
\* or the transaction has committed or failed.
updateRoomState_settled(lost) ==
  /\ UNCHANGED dragging
  /\ txn[Local].fn = "updateRoomState"
  /\ awaiting.by # "none"
  /\ txn[Local].pc = IF lost THEN "update" ELSE "done"
  /\ LET ok == ~lost /\ txn[Local].result = "row"
         by == awaiting.by
     IN  /\ videoState' =
               IF by = "handleSeek" /\ ok
                 THEN [videoState EXCEPT ![Local].position = awaiting.position]
               ELSE IF by = "handlePlayPause" /\ ~ok
                 THEN [videoState EXCEPT ![Local].paused = awaiting.paused,
                                         ![Local].position = awaiting.position,
                                         ![Local].lastUpdated = awaiting.lastUpdated]
               ELSE videoState
         /\ player' = IF by = "handlePlaybackRateChange" /\ ok
                        THEN [player EXCEPT !.playbackRate = awaiting.rate]
                        ELSE player
         /\ unlockTimers' = unlockTimers \cup UnlockTimer(by)
  /\ txn' = [txn EXCEPT ![Local] = Idle]
  /\ awaiting' = NoHandler
  /\ UNCHANGED <<host_lock, room_state, room_members, rowLock, clock, view, hostState,
                 channel, connected, variant, isSeeking, localTime, lastStateUpdate, lastSyncTime,
                 connectionState, now, revertTimers, resumeTimers, sent,
                 isUpdatingState, inputs, uiWrites, probeVars>>
  /\ Rerender(timeupdate)

\* A setTimeout armed in a finally block runs.
unlock(t) ==
  /\ UNCHANGED dragging
  /\ t \in unlockTimers
  /\ t.due <= now
  /\ unlockTimers' = unlockTimers \ {t}
  /\ isUpdatingState' = IF t.clearsUpdating THEN FALSE ELSE isUpdatingState
  /\ isSeeking' = IF t.clearsSeeking THEN FALSE ELSE isSeeking
  /\ UNCHANGED <<dbVars, roomVars, variant, player, localTime, lastStateUpdate,
                 lastSyncTime, connectionState, now, revertTimers, resumeTimers, sent,
                 awaiting, inputs, uiWrites, probeVars>>
  /\ Rerender(timeupdate)

\* UiStepMs of time pass; the media plays on. Timers that are due and a pending
\* change of the playing prop run first.
UiWait ==
  /\ variant # "none"
  /\ now + UiStepMs <= MaxUiNow
  /\ \A t \in unlockTimers : t.due > now
  /\ ~(variant = "simple" /\ player.paused # videoState[Local].paused)
  /\ now' = now + UiStepMs
  /\ player' = IF player.paused THEN player
               ELSE [player EXCEPT
                       !.currentTime = @ + Scale(UiStepMs, player.playbackRate, 100)]
  /\ UNCHANGED <<dbVars, roomVars, variant, isSeeking, localTime, lastStateUpdate,
                 lastSyncTime, connectionState, tickDue, revertTimers, resumeTimers,
                 effectPending, timeupdate, sent, uiVars, probeVars>>

\* Positions the host seeks to and rates it selects.
SeekTargets == {8000}

RateChoices == {150}

\* The host, viewer Local, has the room open with a video loaded.
HostInit ==
  \E v \in {"enhanced", "simple"}, p \in BOOLEAN, rtt \in RttValues :
    /\ host_lock = Local
    /\ room_state = [InitialRoomState EXCEPT !.host_user_id = Local, !.paused = p]
    /\ room_members = Users
    /\ txn = [u \in Users |-> Idle]
    /\ rowLock = [host_lock |-> NULL, room_state |-> NULL]
    /\ clock = 0
    /\ view = [c \in Viewers |-> IF c = Local THEN "subscribed" ELSE "closed"]
    /\ videoState = [c \in Viewers |-> IF c = Local THEN VideoStateOf(room_state)
                                                    ELSE InitialVideoState]
    /\ hostState = [c \in Viewers |-> IF c = Local THEN HostStateOf(room_state, Local)
                                                   ELSE InitialHostState]
    /\ channel = [c \in Viewers |-> {}]
    /\ connected = [c \in Viewers |-> c = Local]
    /\ variant = v
    /\ player = [UnmountedPlayer EXCEPT !.paused = p]
    /\ isSeeking = FALSE
    /\ localTime = 0
    /\ lastStateUpdate = 0
    /\ lastSyncTime = 0
    /\ connectionState = [rtt |-> rtt, offset |-> 0, drift |-> 0, lastSync |-> Epoch]
    /\ now = Epoch
    /\ tickDue = 0
    /\ revertTimers = {}
    /\ resumeTimers = {}
    /\ effectPending = FALSE
    /\ timeupdate = "none"
    /\ sent = {}
    /\ ProbesIdle
    /\ ControlsIdle

HostNext ==
  \/ handlePlayPause
  \/ \E newTime \in SeekTargets : handleSeek(newTime)
  \/ \E newRate \in RateChoices : handlePlaybackRateChange(newRate)
  \/ VideoPlayer_handlePlayPause
  \/ \E newTime \in SeekTargets : VideoPlayer_handleSeek(newTime)
  \/ ReactPlayer_playing
  \/ room_state_update(Local)
  \/ Commit(Local)
  \/ \E lost \in BOOLEAN : updateRoomState_settled(lost)
  \/ \E n \in channel[Local], again \in BOOLEAN : Deliver(Local, n, again)
  \/ \E t \in unlockTimers : unlock(t)
  \/ UiWait

SpecHost == HostInit /\ [][HostNext]_vars

\* The progress slider's onValueChange while the host drags the thumb. The slider
\* is disabled while the client is not host or isUpdatingState is set.
slider_onValueChange(value) ==
  /\ variant = "enhanced"
  /\ ~(~hostState[Local].isHost \/ isUpdatingState)
  /\ hostState[Local].isHost
  /\ localTime' = value
  /\ isSeeking' = TRUE
  /\ player' = [player EXCEPT !.currentTime = value]
  /\ dragging' = TRUE
  /\ UNCHANGED <<dbVars, roomVars, variant, lastStateUpdate, lastSyncTime,
                 connectionState, now, revertTimers, resumeTimers, sent,
                 isUpdatingState, awaiting, unlockTimers, inputs, uiWrites, probeVars>>
  /\ Rerender(timeupdate)

\* The host releases the thumb: onValueCommit calls handleSeek when the client is
\* host, and handleSeek returns at once when its guard refuses.
slider_onValueCommit ==
  /\ variant = "enhanced"
  /\ dragging
  /\ \/ handleSeek(localTime)
     \/ /\ ~(hostState[Local].isHost /\ ~isUpdatingState)
        /\ dragging' = FALSE
        /\ UNCHANGED <<dbVars, roomVars, playerVars, probeVars, isUpdatingState,
                       awaiting, unlockTimers, inputs, uiWrites>>

\* The host has the enhanced player and the host controls open.
SeekInit ==
  \E p \in BOOLEAN, rtt \in RttValues :
    /\ host_lock = Local
    /\ room_state = [InitialRoomState EXCEPT !.host_user_id = Local, !.paused = p]
    /\ room_members = Users
    /\ txn = [u \in Users |-> Idle]
    /\ rowLock = [host_lock |-> NULL, room_state |-> NULL]
    /\ clock = 0
    /\ view = [c \in Viewers |-> IF c = Local THEN "subscribed" ELSE "closed"]
    /\ videoState = [c \in Viewers |-> IF c = Local THEN VideoStateOf(room_state)
                                                    ELSE InitialVideoState]
    /\ hostState = [c \in Viewers |-> IF c = Local THEN HostStateOf(room_state, Local)
                                                   ELSE InitialHostState]
    /\ channel = [c \in Viewers |-> {}]
    /\ connected = [c \in Viewers |-> c = Local]
    /\ variant = "enhanced"
    /\ player = [UnmountedPlayer EXCEPT !.paused = p]
    /\ isSeeking = FALSE
    /\ localTime = 0
    /\ lastStateUpdate = 0
    /\ lastSyncTime = 0
    /\ connectionState = [rtt |-> rtt, offset |-> 0, drift |-> 0, lastSync |-> Epoch]
    /\ now = Epoch
    /\ tickDue = 0
    /\ revertTimers = {}
    /\ resumeTimers = {}
    /\ effectPending = FALSE
    /\ timeupdate = "none"
    /\ sent = {}
    /\ ProbesIdle
    /\ ControlsIdle

\* Seeks with the slider, and a transfer of the host role started from the host
\* controls before the thumb is taken.
SeekNext ==
  \/ \E value \in SeekTargets : slider_onValueChange(value)
  \/ slider_onValueCommit
  \/ room_state_update(Local)
  \/ Commit(Local)
  \/ \E lost \in BOOLEAN : updateRoomState_settled(lost)
  \/ \E t \in unlockTimers : unlock(t)
  \/ UiWait
  \/ \E n \in channel[Local] : Deliver(Local, n, FALSE)
  \/ \E v \in Users : ~dragging /\ handleTransferHost(Local, v)
  \/ transfer_host_select(Local)
  \/ transfer_host_update_lock(Local)
  \/ transfer_host_update_state(Local)
  \/ HostControls_settled(Local)

SpecSeek == SeekInit /\ [][SeekNext]_vars

\* ------------------------------------------------------------ claims: host lock and version
\* C1: when several users call claim_host concurrently on a room whose host is unset
\* (each call read an unset host), exactly one call returns true and every other
\* call returns false.
C1_ExactlyOneClaimWins ==
  \A u, v \in Users :
    ( /\ u # v
      /\ txn[u].fn = "claim_host" /\ txn[u].pc = "done" /\ txn[u].current_host = NULL
      /\ txn[v].fn = "claim_host" /\ txn[v].pc = "done" /\ txn[v].current_host = NULL )
    => (txn[u].result = "true") # (txn[v].result = "true")

\* C2: transfer_host called by a user who is not the room's current host (also when
\* the room has no host) returns false and writes neither host_lock nor room_state.
C2_TransferRefusedUnlessHost ==
  \A u \in Users :
    ( /\ txn[u].fn = "transfer_host" /\ txn[u].pc = "done"
      /\ txn[u].current_host # u )
    => /\ txn[u].result = "false"
       /\ txn[u].wLock = NULL
       /\ txn[u].wState = <<>>

\* C3: in every committed state the host of the canonical state is the host of the
\* host lock: a host_lock row exists exactly when room_state.host_user_id is set, and
\* then both name the same user.
C3_HostLockMatchesState == host_lock = room_state.host_user_id

\* C6: every committed mutation of the room_state row strictly increases its
\* version stamp updated_at.
C6_VersionStrictlyIncreases ==
  [][ (\E u \in Users : /\ txn[u].pc = "commit" /\ txn'[u].pc = "done"
                        /\ rowLock.room_state = u)
      => room_state'.updated_at > room_state.updated_at ]_vars

\* ------------------------------------------------------------ claims: notifications
\* C4: a notification whose version (updated_at) is not newer than the last one the
\* viewer applied is dropped: the callback leaves videoState and hostState as they
\* were, so out-of-order and repeated deliveries end on the highest version received.
C4_StaleNotificationDropped ==
  [][ \A c \in Viewers : \A n \in channel[c] : \A again \in BOOLEAN :
        (Deliver(c, n, again) /\ n.updated_at <= videoState[c].lastUpdated)
           => (videoState'[c] = videoState[c] /\ hostState'[c] = hostState[c]) ]_vars

\* ------------------------------------------------------------ claims: host-only writes
\* C5: a client that is not the host never issues a room_state mutation: every
\* updateRoomState call the player has sent was sent while the client was host.
C5_OnlyHostIssuesUpdates == \A call \in sent : call.isHost

\* ------------------------------------------------------------ claims: drift tiers
\* C7: on a drift tick of a non-host with no seek in flight exactly one tier is
\* applied, selected by the drift d between the local position and the predicted
\* position: d > 5000 hard sync only (the position jumps onto the target, the rate
\* is left alone), 2000 < d <= 5000 gradual correction only (the position moves
\* part of the way, the rate is left alone), 1000 < d <= 2000 rate nudge only (the
\* position is left alone, a nudge with its revert timer is started), d <= 1000
\* neither the position nor the rate changes.
C7_ExactlyOneTierByDrift ==
  [][ ((calculateDrift \/ VideoPlayer_calculateDrift)
         /\ ~hostState[Local].isHost /\ ~isSeeking)
      => LET vs == videoState[Local]
             predicted == IF vs.paused THEN vs.position
                          ELSE vs.position + Scale(now - vs.lastUpdated, vs.playbackRate, 100)
             d == Abs(player.currentTime - predicted)
             onTarget == player'.currentTime = vs.position
             moved == player'.currentTime # player.currentTime
             nudged == player'.playbackRate # player.playbackRate
                         \/ revertTimers' # revertTimers
         IN  /\ d > 5000 => (moved /\ onTarget /\ ~nudged)
             /\ (2000 < d /\ d <= 5000) => (moved /\ ~onTarget /\ ~nudged)
             /\ (1000 < d /\ d <= 2000) => (~moved /\ nudged)
             /\ d <= 1000 => (~moved /\ player'.playbackRate = player.playbackRate) ]_vars

\* C8: when a non-host tick finds drift > 5000 ms, after the tick the local position
\* equals the predicted position: the canonical position if paused, else the
\* canonical position plus elapsed time times the canonical rate.
C8_HardSyncReachesPredicted ==
  [][ (calculateDrift /\ ~hostState[Local].isHost /\ ~isSeeking)
      => LET vs == videoState[Local]
             predicted == IF vs.paused THEN vs.position
                          ELSE vs.position + Scale(now - vs.lastUpdated, vs.playbackRate, 100)
         IN  Abs(player.currentTime - predicted) > 5000
               => player'.currentTime = predicted ]_vars

\* C9: when a non-host tick finds 2000 ms < drift <= 5000 ms, after the tick the
\* local position is actual + 0.10 x (predicted - actual).
C9_GradualMovesTenPercent ==
  [][ (calculateDrift /\ ~hostState[Local].isHost /\ ~isSeeking)
      => LET vs == videoState[Local]
             actual == player.currentTime
             predicted == IF vs.paused THEN vs.position
                          ELSE vs.position + Scale(now - vs.lastUpdated, vs.playbackRate, 100)
             gap == Abs(actual - predicted)
         IN  (2000 < gap /\ gap <= 5000)
               => player'.currentTime = actual + Scale(predicted - actual, 1, 10) ]_vars

\* C10: when a non-host tick finds 1000 ms < drift <= 2000 ms, the local playback
\* rate becomes 1.05 x the canonical rate if the local position is behind the
\* predicted one and 0.95 x the canonical rate if it is ahead.
C10_NudgeScalesCanonicalRate ==
  [][ (calculateDrift /\ ~hostState[Local].isHost /\ ~isSeeking)
      => LET vs == videoState[Local]
             actual == player.currentTime
             predicted == IF vs.paused THEN vs.position
                          ELSE vs.position + Scale(now - vs.lastUpdated, vs.playbackRate, 100)
             span == Abs(actual - predicted)
         IN  (1000 < span /\ span <= 2000)
               => player'.playbackRate * 100
                    = (IF actual < predicted THEN 105 ELSE 95) * vs.playbackRate ]_vars

\* ------------------------------------------------------------ claims: nudge window
\* C11: after a rate nudge the local playback rate returns to the canonical rate
\* within the 2 s window without any further canonical update: whenever the player
\* runs at a rate other than the canonical one, a revert timer that restores the
\* canonical rate is pending and falls due within the next 2000 ms.
C11_NudgeRevertsWithinWindow ==
  (variant = "enhanced"
     /\ player.playbackRate # OrDefault(videoState[Local].playbackRate))
  => \E t \in revertTimers :
       /\ t.due >= now
       /\ t.due <= now + 2000
       /\ t.rate = OrDefault(videoState[Local].playbackRate)

\* A nudge was applied at the last tick, its timer has run, and the player is back
\* at the canonical rate.
C11_Witness ==
  /\ variant = "enhanced"
  /\ ~hostState[Local].isHost
  /\ connectionState.drift > 1000
  /\ connectionState.drift <= 2000
  /\ revertTimers = {}
  /\ player.playbackRate = OrDefault(videoState[Local].playbackRate)

\* ------------------------------------------------------------ claims: predicted position
\* C12: the position a non-host measures its drift against is the predicted one:
\* the canonical position when paused, the canonical position plus elapsed time
\* times the playback rate when playing. The drift a tick records is the distance
\* of the local position from it.
C12_DriftMeasuredAgainstPredicted ==
  [][ (calculateDrift /\ ~hostState[Local].isHost /\ ~isSeeking)
      => LET vs == videoState[Local]
             elapsed == now - vs.lastUpdated
             predicted == IF vs.paused THEN vs.position
                          ELSE vs.position + Scale(elapsed, vs.playbackRate, 100)
         IN  connectionState'.drift = Abs(player.currentTime - predicted) ]_vars

\* ------------------------------------------------------------ claims: clock probes
\* C13: a probe sent at T0, answered by the server at Ts and received at T1 stores
\* rtt = T1 - T0 and offset = Ts - T1 + rtt/2 in the connection state.
C13_ProbeStoresRttAndOffset ==
  [][ syncServerTime_resolved
      => LET rtt == now - probe.sentAt
         IN  /\ connectionState'.rtt = rtt
             /\ connectionState'.offset = probe.serverNow - now + rtt \div 2 ]_vars

\* C14: a probe that fails or times out leaves the stored rtt and offset as they
\* were.
C14_FailedProbeKeepsEstimate ==
  [][ (syncServerTime_failed \/ WebSocketManager_pingTimeout)
      => /\ connectionState'.rtt = connectionState.rtt
         /\ connectionState'.offset = connectionState.offset ]_vars

\* ------------------------------------------------------------ claims: seeking
\* C15: a drift tick that fires while isSeeking is set applies no correction tier:
\* the local position and the local playback rate stay as they were, and no rate
\* reset is armed.
C15_NoTierWhileSeeking ==
  [][ ((calculateDrift \/ VideoPlayer_calculateDrift) /\ isSeeking)
      => /\ player'.currentTime = player.currentTime
         /\ player'.playbackRate = player.playbackRate
         /\ revertTimers' = revertTimers ]_vars

\* A tick of the enhanced player has fired on a non-host that is seeking and is
\* more than five seconds away from the canonical position.
C15_Witness ==
  /\ variant = "enhanced"
  /\ isSeeking
  /\ ~hostState[Local].isHost
  /\ tickDue = now + 2000
  /\ now > Epoch
  /\ Abs(videoState[Local].position - player.currentTime) > 5000

\* ------------------------------------------------------------ claims: host controls
\* C16: every host input a handler has accepted (play/pause, seek, rate change) has
\* made exactly one updateRoomState call.
C16_ExactlyOneWritePerInput ==
  \A i \in 1..inputs :
    Cardinality({k \in DOMAIN uiWrites : uiWrites[k].input = i}) = 1

\* The shortest of the delays after which the controls accept input again.
MinInterUpdateMs == 300

\* C17: any two updateRoomState calls made for host input are at least the minimum
\* inter-update interval apart.
C17_WritesDebounced ==
  \A j, k \in DOMAIN uiWrites :
    j < k => uiWrites[k].at - uiWrites[j].at >= MinInterUpdateMs

\* ------------------------------------------------------------ claims: leaving and losing
\* C18: once a viewer has left the room no notification callback of that room runs
\* for it: what the callback writes, the store's videoState and hostState, stays as
\* the unmount left it.
C18_NoCallbackAfterLeaving ==
  [][ \A c \in Viewers :
        (view[c] = "left" /\ view'[c] = "left")
        => /\ videoState'[c] = videoState[c]
           /\ hostState'[c] = hostState[c] ]_vars

\* C19: a viewer whose room_state subscription is lost shows the disconnected
\* indicator.
C19_LostSubscriptionShowsDisconnected ==
  \A c \in Viewers : view[c] = "lost" => ~connected[c]

\* ------------------------------------------------------------ claims: refused claim
\* C20: a claim_host call that finds the room with a host returns false, not an
\* error, takes no row lock, and its commit leaves host_lock and room_state as they
\* were.
C20_ClaimOnHostedRoomReturnsFalse ==
  [][ \A u \in Users :
        /\ (/\ txn[u].fn = "claim_host" /\ txn[u].pc = "select"
            /\ txn'[u].pc # "select"
            /\ (room_state.host_user_id # NULL \/ host_lock # NULL))
           => /\ txn'[u].result = "false"
              /\ txn'[u].pc = "commit"
              /\ rowLock' = rowLock
        /\ (/\ txn[u].fn = "claim_host" /\ txn[u].pc = "commit"
            /\ txn'[u].pc = "done"
            /\ txn[u].current_host # NULL)
           => /\ txn[u].result = "false"
              /\ host_lock' = host_lock
              /\ room_state' = room_state ]_vars

\* A claim_host call of a user other than the host has returned false.
C20_Witness ==
  \E u \in Users :
    /\ txn[u].fn = "claim_host"
    /\ txn[u].pc = "done"
    /\ txn[u].result = "false"
    /\ room_state.host_user_id \notin {NULL, u}
    /\ host_lock # NULL

\* ------------------------------------------------------------ claims: membership
\* C21: the room never has more members than its capacity.
C21_MembersWithinCapacity == Cardinality(room_members) <= Capacity

\* C22: once room_state names a host it keeps naming one, and the name changes only
\* when a transfer_host call commits.
C22_HostNeverReleased ==
  [][ room_state.host_user_id # NULL
      => /\ room_state'.host_user_id # NULL
         /\ room_state'.host_user_id # room_state.host_user_id
            => \E u \in Users : /\ txn[u].fn = "transfer_host"
                                /\ txn[u].pc = "commit"
                                /\ txn'[u].pc = "done" ]_vars

\* C27: the host room_state names is a member of the room.
C27_HostIsMember ==
  room_state.host_user_id # NULL => room_state.host_user_id \in room_members

\* C23: on a client that is not the host, videoState.position changes only in a step
\* that applies a notification or the initial read; a timeupdate event or a drift
\* tick leaves it alone.
C23_PositionOnlyFromCanonical ==
  [][ (~hostState[Local].isHost
       /\ videoState'[Local].position # videoState[Local].position)
      => \/ channel'[Local] # channel[Local]
         \/ view'[Local] # view[Local] ]_vars

\* C24: when the write of a play/pause click fails after a notification was applied
\* since the click (videoState no longer carries the click's optimistic timestamp),
\* the rollback leaves the values of that notification in place.
C24_RollbackKeepsNotification ==
  [][ (/\ awaiting.by = "handlePlayPause"
       /\ awaiting'.by = "none"
       /\ (txn[Local].pc # "done" \/ txn[Local].result # "row")
       /\ videoState[Local].lastUpdated # lastStateUpdate)
      => videoState'[Local] = videoState[Local] ]_vars

\* C25: when a nudge window ends, the local playback rate is the canonical rate
\* the client holds at that moment, also when it changed during the window.
C25_RateAfterWindowIsCanonical ==
  [][ (\E t \in revertTimers : revertTimers' = revertTimers \ {t})
      => player'.playbackRate = OrDefault(videoState[Local].playbackRate) ]_vars

\* C26: when every notification is delivered and no call is in flight, a client shows
\* isHost exactly when its user is room_state.host_user_id, and no client shows
\* canBecomeHost while the room has a host.
C26_HostFlagsAgreeWhenQuiet ==
  (/\ \A c \in Viewers : channel[c] = {}
   /\ \A u \in Users : txn[u].fn = "idle")
  => \A c \in Viewers :
       view[c] = "subscribed"
       => /\ hostState[c].isHost = (room_state.host_user_id = c)
          /\ ~(hostState[c].canBecomeHost /\ room_state.host_user_id # NULL)

\* C28: whenever isSeeking or isUpdatingState is set, something that clears it is
\* still to come: the thumb is still held, the seek's write is in flight, or the
\* timer that clears the flag is pending.
C28_SeekAlwaysUnlocks ==
  /\ isSeeking => \/ dragging
                  \/ awaiting.by \in {"handleSeek", "VideoPlayer_handleSeek"}
                  \/ \E t \in unlockTimers : t.clearsSeeking
  /\ isUpdatingState => \/ awaiting.by # "none"
                        \/ \E t \in unlockTimers : t.clearsUpdating

\* C29: a ping promise is resolved only by the pong that answers its own ws:ping:
\* the ws:pong taken off the wire in the resolving step carries the ping's start time.
C29_PingResolvedByOwnPong ==
  [][ (ping.phase = "sent" /\ pingResult'.status = "resolved" /\ ping'.phase = "idle")
      => \E m \in wire : /\ m \notin wire'
                         /\ m.kind = "pong"
                         /\ m.clientSentAt = ping.sentAt ]_vars

\* C30: a scheduleReconnect timeout calls socket.connect() only while the disconnect
\* is not manual and connectionAttempts is below maxRetries, and connectionAttempts
\* never exceeds maxRetries.
C30_ReconnectBounded ==
  [][ /\ (reconnectTimers' # reconnectTimers /\ socket' = "connecting"
          /\ socket # "connecting")
         => ~isManualDisconnect /\ connectionAttempts < maxRetries
      /\ connectionAttempts' <= maxRetries ]_vars

====
